---- MODULE Spec2Model ----
(***************************************************************************)
(* A model of the data module (src/data/index.js): the store, selector and *)
(* action registries, the global listener bus, and the withSelect,         *)
(* withDispatch and withData higher-order components.                      *)
(*                                                                         *)
(* Everything in the module runs on one call stack.  A notification cycle  *)
(* (globalListener) is modelled as a frame on `stack`: the array being     *)
(* iterated by forEach and the index of the next listener to call.  While  *)
(* a frame is on the stack only the listener at the top frame can act,     *)
(* which is how a synchronous, re-entrant call chain behaves.              *)
(***************************************************************************)
EXTENDS Integers, Sequences, FiniteSets, TLC

\* ------------------------------------------------------------------ bounds
MaxRef == 3        \* state objects ever created (store creations + SET dispatches)
MaxStores == 2     \* createStore calls
MaxSubs == 3       \* subscribe calls
MaxChanges == 2    \* own-props changes of a withData instance
MaxFn == 4         \* function objects created by proxyDispatch.bind
MaxThrown == 2     \* calls into the module that ended with an exception

\* ------------------------------------------------------------------ domains
Keys == {"k1", "k2"}               \* reducer keys
Values == {0, 1}                   \* payloads of the SET action
Plain == {"L1", "L2"}              \* listener functions passed to subscribe by callers
SelInst == {"S1"}                  \* ComponentWithSelect instances (their bound runSelection)
DataInst == {"D1"}                 \* ComponentWithData instances (their bound runSelection)
Third == {"L3"}                    \* one more caller's listener, where the order matters
Listener == Plain \cup Third \cup SelInst \cup DataInst
StoreIds == 1..MaxStores
Undefined == 0                     \* `undefined`: stores[key] of a key never registered
NoEntry == -1                      \* selectors[key] / actions[key] never assigned

ActionObjs == [type : {"SET"}, value : Values] \cup {[type |-> "NOOP", value |-> 0]}

VARIABLES
    stores,      \* stores[key]: the store object registered under key, or Undefined
    selectors,   \* selectors[key]: the store captured by the bound selectors, or NoEntry
    actions,     \* actions[key]: the store captured by the bound actions, or NoEntry
    storeState,  \* storeState[s]: currentState of store s, a state object [ref, value]
    lastState,   \* lastState[s]: the ref held by registerReducer's closure variable
    nStores,     \* number of stores created
    nRef,        \* number of state objects created
    listeners,   \* the `listeners` array
    stack,       \* the running globalListener calls, innermost last
    subs,        \* subs[l]: unsubscribe closures of l never called yet
    subsDone,    \* subsDone[l]: unsubscribe closures of l already called
    sPhase,      \* ComponentWithSelect c: "new" (constructed), "mounted", "unmounted"
    sUnmounting, \* this.isUnmounting
    sProps,      \* this.props
    sMerge,      \* this.state.mergeProps
    sLast,       \* what the latest runSelection call of c did: "guarded", "same", "set"
    dPhase,      \* ComponentWithData c: "new", "mounted", "unmounted"
    dProps,      \* this.props
    dResolvers,  \* this.resolvers
    dState,      \* this.state
    dLast,       \* what the latest runSelection call of c did: "same", "set"
    dEff,        \* dEff[c][<<reducerKey, id>>]: calls of selectors[reducerKey].getItem.effect( id )
    dChanges,    \* own-props changes of c so far
    dRun,        \* the runResolvers call of c in progress: the effects still to call
    wPhase,      \* ComponentWithDispatch c: "new", "mounted"
    wProps,      \* this.props
    wProxy,      \* this.proxyProps: prop name -> function object
    wFns,        \* function objects created by proxyDispatch.bind so far
    wMountProxy, \* this.proxyProps as componentWillMount left it
    wStable,     \* mapDispatchToProps has returned the same prop names since mount
    wArg,        \* the argument of the latest call of an injected callback
    thrown       \* calls made from outside the module that ended with an exception

regVars == <<stores, selectors, actions, storeState, lastState, nStores, nRef>>
busVars == <<listeners, stack, subs, subsDone>>
selVars == <<sPhase, sUnmounting, sProps, sMerge, sLast>>
dataVars == <<dPhase, dProps, dResolvers, dState, dLast, dEff, dChanges, dRun>>
dispVars == <<wPhase, wProps, wProxy, wFns, wMountProxy, wStable, wArg>>
cmpVars == <<selVars, dataVars, dispVars>>
vars == <<regVars, busVars, cmpVars, thrown>>

\* ------------------------------------------------------------------ helpers
Range(s) == {s[i] : i \in 1..Len(s)}

Count(x, s) == Cardinality({i \in 1..Len(s) : s[i] = x})

IndexOf(s, x) == CHOOSE i \in 1..Len(s) : s[i] = x /\ \A j \in 1..(i - 1) : s[j] # x

\* only the first element equal to x left out
WithoutFirst(s, x) ==
    IF x \in Range(s)
    THEN [i \in 1..(Len(s) - 1) |-> IF i < IndexOf(s, x) THEN s[i] ELSE s[i + 1]]
    ELSE s

\* every element from the first x on left out
WithoutTail(s, x) ==
    IF x \in Range(s) THEN SubSeq(s, 1, IndexOf(s, x) - 1) ELSE s

\* a removal that moves the last element into the place of the first x
WithoutSwap(s, x) ==
    IF x \in Range(s)
    THEN [i \in 1..(Len(s) - 1) |-> IF i = IndexOf(s, x) THEN s[Len(s)] ELSE s[i]]
    ELSE s

\* lodash `without( array, value )`: a new array with every element equal to value left out
Without(s, x) == SelectSeq(s, LAMBDA y : y # x)

\* ------------------------------------------------------------------ stores
InitialState(ref) == [ref |-> ref, value |-> 0]

\* The reducer registered with every store: SET builds a new state object,
\* any other action returns the state it was given.
Reducer(state, action, ref) ==
    IF action.type = "SET" THEN [ref |-> ref, value |-> action.value] ELSE state

\* a subscriber that never assigns lastState
NextLastStateStale(s, state) == lastState[s]

\* What the closure variable lastState holds after the store's subscriber ran.
NextLastState(s, state) == state.ref

\* globalListener(): forEach over the array `listeners` refers to when the call starts.
\* The frame also remembers the dispatch that started it: the key it came through,
\* the store, the value sent, and whether a later setValue reached the same store
\* while the cycle was running.
Frame(s, k, a) ==
    [snap |-> listeners, i |-> 1, key |-> k, s |-> s, value |-> a.value, nested |-> FALSE]

MarkNested(stk, s, a) ==
    [n \in DOMAIN stk |->
        IF stk[n].s = s /\ a.type = "SET" THEN [stk[n] EXCEPT !.nested = TRUE] ELSE stk[n]]

\* a bound selector that kept the state the store had when it was registered
GetValueAtRegistration(k, st) == InitialState(0).value

\* select( key ).getValue() : the bound selector reads its captured store's state
GetValue(k, st) == st[selectors[k]].value

\* store.dispatch( action ) on store s, with the subscriber registerReducer installed.
\* `stk` is the call stack at the time of the call, `k` the key the call came through.
StoreDispatch(s, k, a, stk) ==
    LET next == Reducer(storeState[s], a, nRef + 1)
        hasChanged == next.ref # lastState[s]
    IN  /\ a.type = "SET" => nRef < MaxRef
        /\ nRef' = IF a.type = "SET" THEN nRef + 1 ELSE nRef
        /\ storeState' = [storeState EXCEPT ![s] = next]
        /\ lastState' = [lastState EXCEPT ![s] = NextLastState(s, next)]
        /\ stack' = IF hasChanged THEN Append(MarkNested(stk, s, a), Frame(s, k, a))
                    ELSE MarkNested(stk, s, a)

\* registerReducer( key, reducer ).  createStore runs the reducer once, so the store
\* starts with a state object of its own; the devtools enhancer of the host page
\* does not change what the store does and is left out.
RegisterReducerOp(k) ==
    /\ nStores < MaxStores
    /\ nRef < MaxRef
    /\ nStores' = nStores + 1
    /\ nRef' = nRef + 1
    /\ stores' = [stores EXCEPT ![k] = nStores + 1]
    /\ storeState' = [storeState EXCEPT ![nStores + 1] = InitialState(nRef + 1)]
    /\ lastState' = [lastState EXCEPT ![nStores + 1] = nRef + 1]

\* registerSelectors( key, newSelectors ): `store` is read from `stores` now
BoundStore(st, k) == st[k]

Idle == stack = <<>>

RegisterReducer(k) ==
    /\ Idle
    /\ RegisterReducerOp(k)
    /\ UNCHANGED <<selectors, actions, busVars, cmpVars, thrown>>

RegisterSelectors(k) ==
    /\ Idle
    /\ selectors' = [selectors EXCEPT ![k] = BoundStore(stores, k)]
    /\ UNCHANGED <<stores, actions, storeState, lastState, nStores, nRef, busVars, cmpVars, thrown>>

RegisterActions(k) ==
    /\ Idle
    /\ actions' = [actions EXCEPT ![k] = BoundStore(stores, k)]
    /\ UNCHANGED <<stores, selectors, storeState, lastState, nStores, nRef, busVars, cmpVars, thrown>>

\* registerStore( key, { reducer, actions, selectors } ), options.reducer given
RegisterStore(k, withActions, withSelectors) ==
    /\ Idle
    /\ RegisterReducerOp(k)
    /\ actions' = IF withActions THEN [actions EXCEPT ![k] = BoundStore(stores', k)] ELSE actions
    /\ selectors' = IF withSelectors THEN [selectors EXCEPT ![k] = BoundStore(stores', k)]
                    ELSE selectors
    /\ UNCHANGED <<busVars, cmpVars, thrown>>

\* a registerStore that checks options.reducer only after registering the rest
SelectorsOnLateThrow(k, withSelectors) ==
    IF withSelectors THEN [selectors EXCEPT ![k] = BoundStore(stores, k)] ELSE selectors

\* `selectors` when registerStore throws for a missing options.reducer: the throw
\* is the first statement, registerSelectors has not been called
SelectorsOnThrow(k, withSelectors) == selectors

\* registerStore( key, options ) with a falsy options.reducer: TypeError
RegisterStoreNoReducer(k, withActions, withSelectors) ==
    /\ Idle
    /\ thrown < MaxThrown
    /\ thrown' = thrown + 1
    /\ selectors' = SelectorsOnThrow(k, withSelectors)
    /\ UNCHANGED <<stores, actions, storeState, lastState, nStores, nRef, busVars, cmpVars>>

\* ------------------------------------------------------------------ listener bus
\* the subscribe calls made so far
RECURSIVE Calls(_)
Calls(ls) ==
    IF ls = {} THEN 0
    ELSE LET l == CHOOSE x \in ls : TRUE IN subs[l] + subsDone[l] + Calls(ls \ {l})

\* subscribe( listener )
SubscribeOp(l) ==
    /\ Calls(Listener) < MaxSubs
    /\ listeners' = Append(listeners, l)
    /\ subs' = [subs EXCEPT ![l] = @ + 1]
    /\ subsDone' = subsDone

\* the closure subscribe returned, called for the first time (again = FALSE) or once more
UnsubscribeOp(l, again) ==
    /\ IF again THEN subsDone[l] > 0 ELSE subs[l] > 0
    /\ listeners' = Without(listeners, l)
    /\ subs' = IF again THEN subs ELSE [subs EXCEPT ![l] = @ - 1]
    /\ subsDone' = IF again THEN subsDone ELSE [subsDone EXCEPT ![l] = @ + 1]

Subscribe(l) ==
    /\ Idle
    /\ SubscribeOp(l)
    /\ UNCHANGED <<regVars, stack, cmpVars, thrown>>

Unsubscribe(l, again) ==
    /\ Idle
    /\ UnsubscribeOp(l, again)
    /\ UNCHANGED <<regVars, stack, cmpVars, thrown>>

\* dispatch( key ).setValue( v ) / .noop() called from outside any listener.
\* Without bound actions under the key, or with actions bound to no store, the call
\* throws before anything changes.
Dispatch(k, a) ==
    /\ Idle
    /\ actions[k] \in StoreIds
    /\ StoreDispatch(actions[k], k, a, stack)
    /\ UNCHANGED <<stores, selectors, actions, nStores, listeners, subs, subsDone, cmpVars, thrown>>

\* ------------------------------------------------------------------ a notification cycle
Top == stack[Len(stack)]

\* a forEach that reads the module's `listeners` variable at every step
IteratedLive(f) == listeners

\* the array forEach goes through: the one `listeners` referred to when
\* globalListener was called, whatever subscribe and unsubscribe do meanwhile
Iterated(f) == f.snap

Calling(l) ==
    /\ stack # <<>>
    /\ Top.i <= Len(Iterated(Top))
    /\ Iterated(Top)[Top.i] = l

\* the stack once the listener being called has returned to forEach
Advanced == [stack EXCEPT ![Len(stack)].i = @ + 1]

\* A caller's listener that does nothing
ListenerNoop(l) ==
    /\ Calling(l)
    /\ stack' = Advanced
    /\ UNCHANGED <<regVars, listeners, subs, subsDone, cmpVars, thrown>>

\* A caller's listener that dispatches: the inner dispatch runs to completion
\* (its own notification cycle included) before the listener returns.
ListenerDispatch(l, k, a) ==
    /\ Calling(l)
    /\ actions[k] \in StoreIds
    /\ StoreDispatch(actions[k], k, a, Advanced)
    /\ UNCHANGED <<stores, selectors, actions, nStores, listeners, subs, subsDone, cmpVars, thrown>>

\* A caller's listener that subscribes another listener
ListenerSubscribe(l, m) ==
    /\ Calling(l)
    /\ SubscribeOp(m)
    /\ stack' = Advanced
    /\ UNCHANGED <<regVars, cmpVars, thrown>>

\* A caller's listener that calls an unsubscribe closure
ListenerUnsubscribe(l, m, again) ==
    /\ Calling(l)
    /\ UnsubscribeOp(m, again)
    /\ stack' = Advanced
    /\ UNCHANGED <<regVars, cmpVars, thrown>>

\* forEach has called every element: globalListener returns, then the store's
\* subscriber, then store.dispatch, then the bound action.
Return ==
    /\ stack # <<>>
    /\ Top.i > Len(Iterated(Top))
    /\ stack' = SubSeq(stack, 1, Len(stack) - 1)
    /\ UNCHANGED <<regVars, listeners, subs, subsDone, cmpVars, thrown>>

\* a forEach that caught the exception of a listener and went on to the next one
UnwoundIsolated(stk, n) == [stk EXCEPT ![Len(stk)].i = @ + 1]

\* The call stack once an exception thrown by the listener being called has been
\* caught n frames up: forEach, globalListener, the store's subscriber and
\* store.dispatch catch nothing, so every cycle above frame n ends where it is.
Unwound(stk, n) == SubSeq(stk, 1, n)

\* A caller's listener that throws.  The exception leaves the cycle it was called in;
\* the listener whose dispatch started that cycle may catch it and go on (n is the
\* frame of the innermost listener that does), or nobody does (n = 0) and the call
\* made from outside the module ends with the exception.
ListenerThrow(l, n) ==
    /\ Calling(l)
    /\ n < Len(stack)
    /\ n = 0 => thrown < MaxThrown
    /\ stack' = Unwound(stack, n)
    /\ thrown' = IF n = 0 THEN thrown + 1 ELSE thrown
    /\ UNCHANGED <<regVars, listeners, subs, subsDone, cmpVars>>

\* ------------------------------------------------------------------ shallow equality
\* A JavaScript object is a function from its own keys to values; a value that may be
\* `undefined` is wrapped: [def |-> FALSE] is undefined, [def |-> TRUE, obj |-> o] is o.
EmptyObj == [x \in {} |-> 0]
UndefinedObj == [def |-> FALSE, obj |-> EmptyObj]
Obj(o) == [def |-> TRUE, obj |-> o]

\* `a !== b` on two objects of which one was just built: never the same object
IsShallowEqualByIdentity(a, b) == ~a.def /\ ~b.def

\* isShallowEqual( a, b ) of the shallowequal package: identical values are equal, a
\* non-object is equal to nothing else, objects are equal when they have as many own
\* keys and every key of a is a key of b holding the identical value.
IsShallowEqual(a, b) ==
    IF ~a.def \/ ~b.def
    THEN ~a.def /\ ~b.def
    ELSE /\ Cardinality(DOMAIN a.obj) = Cardinality(DOMAIN b.obj)
         /\ \A key \in DOMAIN a.obj : key \in DOMAIN b.obj /\ a.obj[key] = b.obj[key]

\* ------------------------------------------------------------------ withSelect
OwnProps == {0, 1}

\* The mapStateToProps given to withSelect:
\*   ( select, props ) => props.x === 0
\*       ? { value: select( 'k1' ).getValue() }
\*       : { value: select( 'k1' ).getValue(), obj: select( 'k1' ).getState() }
\* getState returns the state object itself, so `obj` changes with every new state.
MapStateToProps(p, st) ==
    IF p = 0
    THEN [value |-> GetValue("k1", st)]
    ELSE [value |-> GetValue("k1", st), obj |-> st[selectors["k1"]].ref]

\* this.isUnmounting once componentWillUnmount has run
UnmountFlagForgotten == FALSE

UnmountFlag == TRUE

\* runSelection( props ).  setState is taken to have updated this.state by the time
\* of the next call, as React does outside a batched update.
RunSelectionSelect(c, props) ==
    IF sUnmounting[c]
    THEN /\ sMerge' = sMerge
         /\ sLast' = [sLast EXCEPT ![c] = "guarded"]
    ELSE LET nextMergeProps == Obj(MapStateToProps(props, storeState))
         IN  IF ~IsShallowEqual(nextMergeProps, sMerge[c])
             THEN /\ sMerge' = [sMerge EXCEPT ![c] = nextMergeProps]
                  /\ sLast' = [sLast EXCEPT ![c] = "set"]
             ELSE /\ sMerge' = sMerge
                  /\ sLast' = [sLast EXCEPT ![c] = "same"]

\* componentWillMount, with the props the instance was constructed with.  With no
\* selectors under 'k1' mapStateToProps throws and the component does not mount.
MountSelectOp(c, p) ==
    /\ sPhase[c] = "new"
    /\ selectors["k1"] \in StoreIds
    /\ SubscribeOp(c)
    /\ RunSelectionSelect(c, p)
    /\ sPhase' = [sPhase EXCEPT ![c] = "mounted"]
    /\ sProps' = [sProps EXCEPT ![c] = p]
    /\ UNCHANGED sUnmounting

\* componentWillUnmount
UnmountSelectOp(c) ==
    /\ sPhase[c] = "mounted"
    /\ UnsubscribeOp(c, FALSE)
    /\ sUnmounting' = [sUnmounting EXCEPT ![c] = UnmountFlag]
    /\ sPhase' = [sPhase EXCEPT ![c] = "unmounted"]
    /\ UNCHANGED <<sProps, sMerge, sLast>>

\* a componentWillReceiveProps that calls this.runSelection() on this.props
SelectionPropsStale(c, nextProps) == sProps[c]

\* the props componentWillReceiveProps hands to runSelection
SelectionProps(c, nextProps) == nextProps

MountSelect(c, p) ==
    /\ Idle
    /\ MountSelectOp(c, p)
    /\ UNCHANGED <<regVars, stack, dataVars, dispVars, thrown>>

\* componentWillReceiveProps( nextProps ), after which React assigns this.props.
\* The props object is { x: p }, so two props objects are shallowly equal exactly
\* when their p is the same.
ReceivePropsSelect(c, p) ==
    /\ Idle
    /\ sPhase[c] = "mounted"
    /\ IF p # sProps[c]
       THEN RunSelectionSelect(c, SelectionProps(c, p))
       ELSE UNCHANGED <<sMerge, sLast>>
    /\ sProps' = [sProps EXCEPT ![c] = p]
    /\ UNCHANGED <<regVars, busVars, sPhase, sUnmounting, dataVars, dispVars, thrown>>

UnmountSelect(c) ==
    /\ Idle
    /\ UnmountSelectOp(c)
    /\ UNCHANGED <<regVars, stack, dataVars, dispVars, thrown>>

\* A caller's listener whose work makes React unmount the component
ListenerUnmountSelect(l, c) ==
    /\ Calling(l)
    /\ UnmountSelectOp(c)
    /\ stack' = Advanced
    /\ UNCHANGED <<regVars, dataVars, dispVars, thrown>>

\* The bus calls the instance's bound runSelection
NotifySelect(c) ==
    /\ Calling(c)
    /\ RunSelectionSelect(c, sProps[c])
    /\ stack' = Advanced
    /\ UNCHANGED <<regVars, listeners, subs, subsDone, sPhase, sUnmounting, sProps,
                   dataVars, dispVars, thrown>>

\* ------------------------------------------------------------------ withData
Ids == {0, 1}
EffKeys == Keys \X Ids
DataProps == {"a0", "a1", "b0", "dup", "alt"}

\* The selectors registered under every key:
\*   getItem: { select: ( state, id ) => 2 * id + state.value, effect: ( id ) => ... }
\*   getAlt:  ( state, id ) => state.value - 1 - id
Select(rk, key, args, st) ==
    IF key = "getItem"
    THEN 2 * args[1] + st[selectors[rk]].value
    ELSE st[selectors[rk]].value - 1 - args[1]

HasEffect(key) == key = "getItem"

\* what resolve( reducerKey ).key( ...args ) returns
Resolver(rk, key, args) == [args |-> args, key |-> key, reducerKey |-> rk]

\* resolve( props ) with the mapStateToProps given to withData:
\*   ( resolve, props ) => the resolvers below, chosen by props.mode
Resolve(p) ==
    CASE p = "a0" -> [item |-> Resolver("k1", "getItem", <<0>>)]
      [] p = "a1" -> [item |-> Resolver("k1", "getItem", <<1>>)]
      [] p = "b0" -> [item |-> Resolver("k2", "getItem", <<0>>)]
      [] p = "alt" -> [item |-> Resolver("k1", "getAlt", <<0>>)]
      [] p = "dup" -> [item |-> Resolver("k1", "getItem", <<0>>),
                       other |-> Resolver("k1", "getItem", <<0>>)]

\* isShallowEqual on two argument arrays
ArgsShallowEqual(a, b) == Len(a) = Len(b) /\ \A n \in 1..Len(a) : a[n] = b[n]

\* `previousResolver.args === resolver.args`: two arrays built by separate calls
ArgsIdentical(a, b) == FALSE

ArgsEqual(a, b) == ArgsShallowEqual(a, b)

\* the omitBy predicate of runResolvers: the resolver under this prop key is the one
\* already there
SameResolver(previous, propKey, resolver) ==
    /\ propKey \in DOMAIN previous
    /\ previous[propKey].key = resolver.key
    /\ ArgsEqual(previous[propKey].args, resolver.args)

\* runSideEffects( newResolvers ): the number of effect calls it adds for eff
EffectCalls(newResolvers, eff) ==
    Cardinality({propKey \in DOMAIN newResolvers :
        /\ HasEffect(newResolvers[propKey].key)
        /\ <<newResolvers[propKey].reducerKey, newResolvers[propKey].args[1]>> = eff})

\* React's setState( partial ): the keys of partial are assigned, the others stay
Merged(state, partial) ==
    [key \in DOMAIN state \cup DOMAIN partial |->
        IF key \in DOMAIN partial THEN partial[key] ELSE state[key]]

\* runSelection() of ComponentWithData, on resolvers rs
RunSelectionData(c, rs) ==
    LET newState == [propKey \in DOMAIN rs |->
                        Select(rs[propKey].reducerKey, rs[propKey].key, rs[propKey].args,
                               storeState)]
    IN  IF ~IsShallowEqual(Obj(newState), Obj(dState[c]))
        THEN /\ dState' = [dState EXCEPT ![c] = Merged(dState[c], newState)]
             /\ dLast' = [dLast EXCEPT ![c] = "set"]
        ELSE /\ dState' = dState
             /\ dLast' = [dLast EXCEPT ![c] = "same"]

\* runResolvers( props ).  A resolver naming a key without registered selectors
\* makes resolve throw before anything changes.
RunResolvers(c, p) ==
    LET resolvers == Resolve(p)
        kept == {propKey \in DOMAIN resolvers :
                    ~SameResolver(dResolvers[c], propKey, resolvers[propKey])}
        newResolvers == [propKey \in kept |-> resolvers[propKey]]
    IN  /\ \A propKey \in DOMAIN resolvers :
              selectors[resolvers[propKey].reducerKey] \in StoreIds
        /\ dResolvers' = [dResolvers EXCEPT ![c] = resolvers]
        /\ dEff' = [dEff EXCEPT ![c] =
                        [eff \in EffKeys |-> dEff[c][eff] + EffectCalls(newResolvers, eff)]]
        /\ RunSelectionData(c, resolvers)

\* componentWillMount
MountData(c, p) ==
    /\ Idle
    /\ dPhase[c] = "new"
    /\ SubscribeOp(c)
    /\ RunResolvers(c, p)
    /\ dPhase' = [dPhase EXCEPT ![c] = "mounted"]
    /\ dProps' = [dProps EXCEPT ![c] = p]
    /\ UNCHANGED <<regVars, stack, dChanges, selVars, dispVars, thrown, dRun>>

\* componentWillReceiveProps( nextProps ), after which React assigns this.props
ReceivePropsData(c, p) ==
    /\ Idle
    /\ dPhase[c] = "mounted"
    /\ IF p # dProps[c]
       THEN /\ dChanges[c] < MaxChanges
            /\ dChanges' = [dChanges EXCEPT ![c] = @ + 1]
            /\ RunResolvers(c, p)
       ELSE UNCHANGED <<dResolvers, dState, dLast, dEff, dChanges>>
    /\ dProps' = [dProps EXCEPT ![c] = p]
    /\ UNCHANGED <<regVars, busVars, dPhase, selVars, dispVars, thrown, dRun>>

\* ---- runResolvers step by step, with effects that dispatch
NotRunning == [on |-> FALSE, todo |-> <<>>]

Quiet == Idle /\ \A c \in DataInst : ~dRun[c].on

\* forEach( newResolvers, ... ) of runSideEffects visits the prop keys in the order
\* the mapping wrote them: item before other
Todo(newResolvers) ==
    SelectSeq(<<"item", "other">>,
              LAMBDA propKey : /\ propKey \in DOMAIN newResolvers
                               /\ HasEffect(newResolvers[propKey].key))

\* a runResolvers that assigns this.resolvers only after the effects have run
BookkeepingDeferred(c, resolvers) == dResolvers[c]

\* `this.resolvers = resolvers`, the statement before runSideEffects
Bookkeeping(c, resolvers) == resolvers

\* runResolvers( props ) up to the call of runSideEffects
StartResolvers(c, p) ==
    LET resolvers == Resolve(p)
        kept == {propKey \in DOMAIN resolvers :
                    ~SameResolver(dResolvers[c], propKey, resolvers[propKey])}
        newResolvers == [propKey \in kept |-> resolvers[propKey]]
    IN  /\ \A propKey \in DOMAIN resolvers :
              /\ selectors[resolvers[propKey].reducerKey] \in StoreIds
              /\ actions[resolvers[propKey].reducerKey] \in StoreIds
        /\ dResolvers' = [dResolvers EXCEPT ![c] = Bookkeeping(c, resolvers)]
        /\ dRun' = [dRun EXCEPT ![c] = [on |-> TRUE, todo |-> Todo(newResolvers)]]

\* componentWillMount, stopping where runSideEffects begins
MountDataStep(c, p) ==
    /\ Quiet
    /\ dPhase[c] = "new"
    /\ SubscribeOp(c)
    /\ StartResolvers(c, p)
    /\ dPhase' = [dPhase EXCEPT ![c] = "mounted"]
    /\ dProps' = [dProps EXCEPT ![c] = p]
    /\ UNCHANGED <<regVars, stack, dState, dLast, dEff, dChanges, selVars, dispVars, thrown>>

\* componentWillReceiveProps( nextProps ) with props that are not shallowly equal,
\* stopping where runSideEffects begins
ReceivePropsDataStep(c, p) ==
    /\ Quiet
    /\ dPhase[c] = "mounted"
    /\ p # dProps[c]
    /\ dChanges[c] < MaxChanges
    /\ dChanges' = [dChanges EXCEPT ![c] = @ + 1]
    /\ StartResolvers(c, p)
    /\ dProps' = [dProps EXCEPT ![c] = p]
    /\ UNCHANGED <<regVars, busVars, dPhase, dState, dLast, dEff, selVars, dispVars, thrown>>

\* runSideEffects calls the next effect:
\*   effect: ( id ) => dispatch( reducerKey ).setValue( v )   or   .noop()
\* The dispatch runs to completion, its notification cycle included, before the
\* effect returns.
EffectStep(c, a) ==
    LET propKey == Head(dRun[c].todo)
        resolver == Resolve(dProps[c])[propKey]
        eff == <<resolver.reducerKey, resolver.args[1]>>
    IN  /\ Idle
        /\ dRun[c].on
        /\ dRun[c].todo # <<>>
        /\ dEff' = [dEff EXCEPT ![c][eff] = @ + 1]
        /\ dRun' = [dRun EXCEPT ![c].todo = Tail(@)]
        /\ StoreDispatch(actions[resolver.reducerKey], resolver.reducerKey, a, stack)
        /\ UNCHANGED <<stores, selectors, actions, nStores, listeners, subs, subsDone,
                       dPhase, dProps, dResolvers, dState, dLast, dChanges,
                       selVars, dispVars, thrown>>

\* runSideEffects has returned: `this.runSelection()`, and runResolvers returns
FinishResolvers(c) ==
    /\ Idle
    /\ dRun[c].on
    /\ dRun[c].todo = <<>>
    /\ RunSelectionData(c, dResolvers[c])
    /\ dRun' = [dRun EXCEPT ![c] = NotRunning]
    /\ UNCHANGED <<regVars, busVars, dPhase, dProps, dResolvers, dEff, dChanges,
                   selVars, dispVars, thrown>>

\* componentWillUnmount
UnmountDataOp(c) ==
    /\ dPhase[c] = "mounted"
    /\ UnsubscribeOp(c, FALSE)
    /\ dPhase' = [dPhase EXCEPT ![c] = "unmounted"]
    /\ UNCHANGED <<dProps, dResolvers, dState, dLast, dEff, dChanges, dRun>>

UnmountData(c) ==
    /\ Idle
    /\ UnmountDataOp(c)
    /\ UNCHANGED <<regVars, stack, selVars, dispVars, thrown>>

\* A caller's listener whose work makes React unmount the component
ListenerUnmountData(l, c) ==
    /\ Calling(l)
    /\ UnmountDataOp(c)
    /\ stack' = Advanced
    /\ UNCHANGED <<regVars, selVars, dispVars, thrown>>

\* The bus calls the instance's bound runSelection
NotifyData(c) ==
    /\ Calling(c)
    /\ RunSelectionData(c, dResolvers[c])
    /\ stack' = Advanced
    /\ UNCHANGED <<regVars, listeners, subs, subsDone, dPhase, dProps, dResolvers, dEff,
                   dChanges, selVars, dispVars, thrown, dRun>>

\* ------------------------------------------------------------------ withDispatch
DispInst == {"W1"}
DispProps == {"p0", "p1", "p2"}

\* The mapDispatchToProps given to withDispatch:
\*   ( dispatch, props ) => props.mode === 'p2'
\*       ? { onSet: ( v ) => dispatch( 'k1' ).setValue( ( 1 + v ) % 2 ),
\*           onNoop: () => dispatch( 'k1' ).noop() }
\*       : { onSet: ( v ) => dispatch( 'k1' ).setValue(
\*                              ( ( props.mode === 'p1' ? 1 : 0 ) + v ) % 2 ) }
\* as the action each dispatcher sends when it is called with 0.
MapDispatchToProps(p) ==
    CASE p = "p0" -> [onSet |-> [type |-> "SET", value |-> 0]]
      [] p = "p1" -> [onSet |-> [type |-> "SET", value |-> 1]]
      [] p = "p2" -> [onSet |-> [type |-> "SET", value |-> 1],
                      onNoop |-> [type |-> "NOOP", value |-> 0]]

\* the action the dispatcher d sends when it is called with the argument v
Sent(d, v) == IF d.type = "SET" THEN [d EXCEPT !.value = (@ + v) % 2] ELSE d

\* mapValues visits the keys in insertion order: onSet before onNoop
Before(propName) == IF propName = "onNoop" THEN {"onSet"} ELSE {}

\* a setProxyProps that binds a new function on every call
NeverTracked(proxy, propName) == FALSE

\* this.proxyProps.hasOwnProperty( propName )
Tracked(proxy, propName) == propName \in DOMAIN proxy

\* setProxyProps( props ): the new this.proxyProps
ProxyProps(c, p) ==
    LET names == DOMAIN MapDispatchToProps(p)
        fresh == {propName \in names : ~Tracked(wProxy[c], propName)}
    IN  [propName \in names |->
            IF Tracked(wProxy[c], propName)
            THEN wProxy[c][propName]
            ELSE wFns + 1 + Cardinality(fresh \cap Before(propName))]

SetProxyProps(c, p) ==
    LET next == ProxyProps(c, p)
        made == Cardinality({propName \in DOMAIN next : ~Tracked(wProxy[c], propName)})
    IN  /\ wFns + made <= MaxFn
        /\ wFns' = wFns + made
        /\ wProxy' = [wProxy EXCEPT ![c] = next]

\* componentWillMount
MountDispatch(c, p) ==
    /\ Idle
    /\ wPhase[c] = "new"
    /\ SetProxyProps(c, p)
    /\ wPhase' = [wPhase EXCEPT ![c] = "mounted"]
    /\ wProps' = [wProps EXCEPT ![c] = p]
    /\ wMountProxy' = [wMountProxy EXCEPT ![c] = wProxy'[c]]
    /\ UNCHANGED <<regVars, busVars, wStable, selVars, dataVars, thrown, wArg>>

\* componentWillUpdate( nextProps ), after which React assigns this.props
UpdateDispatch(c, p) ==
    /\ Idle
    /\ wPhase[c] = "mounted"
    /\ SetProxyProps(c, p)
    /\ wProps' = [wProps EXCEPT ![c] = p]
    /\ wStable' = [wStable EXCEPT ![c] =
                       @ /\ DOMAIN MapDispatchToProps(p) = DOMAIN wMountProxy[c]]
    /\ UNCHANGED <<regVars, busVars, wPhase, wMountProxy, selVars, dataVars, thrown, wArg>>

\* a callback that keeps the dispatcher of the props it first saw
DispatcherPropsFixed(c) == "p0"

\* proxyDispatch reads this.props at the time of the call
DispatcherProps(c) == wProps[c]

\* the wrapped component calls an injected callback with an argument:
\* proxyDispatch( propName, v )
InvokeProxy(c, propName, v) ==
    LET dispatchers == MapDispatchToProps(DispatcherProps(c))
    IN  /\ Idle
        /\ wPhase[c] = "mounted"
        /\ propName \in DOMAIN wProxy[c]
        /\ propName \in DOMAIN dispatchers
        /\ actions["k1"] \in StoreIds
        /\ wArg' = [wArg EXCEPT ![c] = v]
        /\ StoreDispatch(actions["k1"], "k1", Sent(dispatchers[propName], v), stack)
        /\ UNCHANGED <<stores, selectors, actions, nStores, listeners, subs, subsDone,
                       selVars, dataVars, wPhase, wProps, wProxy, wFns, wMountProxy,
                       wStable, thrown>>

\* ------------------------------------------------------------------ specifications
Init ==
    /\ stores = [k \in Keys |-> Undefined]
    /\ selectors = [k \in Keys |-> NoEntry]
    /\ actions = [k \in Keys |-> NoEntry]
    /\ storeState = [s \in StoreIds |-> InitialState(0)]
    /\ lastState = [s \in StoreIds |-> 0]
    /\ nStores = 0
    /\ nRef = 0
    /\ listeners = <<>>
    /\ stack = <<>>
    /\ subs = [l \in Listener |-> 0]
    /\ subsDone = [l \in Listener |-> 0]
    /\ sPhase = [c \in SelInst |-> "new"]
    /\ sUnmounting = [c \in SelInst |-> FALSE]
    /\ sProps = [c \in SelInst |-> 0]
    /\ sMerge = [c \in SelInst |-> UndefinedObj]
    /\ sLast = [c \in SelInst |-> "none"]
    /\ dPhase = [c \in DataInst |-> "new"]
    /\ dProps = [c \in DataInst |-> "a0"]
    /\ dResolvers = [c \in DataInst |-> EmptyObj]
    /\ dState = [c \in DataInst |-> EmptyObj]
    /\ dLast = [c \in DataInst |-> "none"]
    /\ dEff = [c \in DataInst |-> [eff \in EffKeys |-> 0]]
    /\ dChanges = [c \in DataInst |-> 0]
    /\ dRun = [c \in DataInst |-> NotRunning]
    /\ wPhase = [c \in DispInst |-> "new"]
    /\ wProps = [c \in DispInst |-> "p0"]
    /\ wProxy = [c \in DispInst |-> EmptyObj]
    /\ wFns = 0
    /\ wMountProxy = [c \in DispInst |-> EmptyObj]
    /\ wStable = [c \in DispInst |-> TRUE]
    /\ wArg = [c \in DispInst |-> 0]
    /\ thrown = 0

\* The registries: every registration call, dispatches, and a listener that dispatches.
NextRegistry ==
    \/ \E k \in Keys : RegisterReducer(k)
    \/ \E k \in Keys : RegisterSelectors(k)
    \/ \E k \in Keys : RegisterActions(k)
    \/ \E k \in Keys, wa, ws \in BOOLEAN : RegisterStore(k, wa, ws)
    \/ Subscribe("L1")
    \/ \E k \in Keys, a \in ActionObjs : Dispatch(k, a)
    \/ ListenerNoop("L1")
    \/ \E k \in Keys, a \in ActionObjs : ListenerDispatch("L1", k, a)
    \/ Return

SpecRegistry == Init /\ [][NextRegistry]_vars

\* The listener bus: one registered store, callers' listeners that subscribe,
\* unsubscribe and dispatch, also from inside a notification cycle.
NextBus ==
    \/ RegisterStore("k1", TRUE, TRUE)
    \/ \E l \in Plain : Subscribe(l)
    \/ \E l \in Plain, again \in BOOLEAN : Unsubscribe(l, again)
    \/ \E a \in ActionObjs : Dispatch("k1", a)
    \/ \E l \in Plain : ListenerNoop(l)
    \/ \E l \in Plain, a \in ActionObjs : ListenerDispatch(l, "k1", a)
    \/ \E l, m \in Plain : ListenerSubscribe(l, m)
    \/ \E l, m \in Plain, again \in BOOLEAN : ListenerUnsubscribe(l, m, again)
    \/ Return

SpecBus == Init /\ [][NextBus]_vars

\* The order of the bus: three callers' listeners that are subscribed and unsubscribed,
\* also from inside a notification cycle.
NextOrder ==
    \/ RegisterStore("k1", TRUE, TRUE)
    \/ \E l \in Plain \cup Third : Subscribe(l)
    \/ \E l \in Plain \cup Third : Unsubscribe(l, FALSE)
    \/ \E a \in ActionObjs : Dispatch("k1", a)
    \/ \E l \in Plain \cup Third : ListenerNoop(l)
    \/ \E l, m \in Plain \cup Third : ListenerSubscribe(l, m)
    \/ \E l, m \in Plain \cup Third : ListenerUnsubscribe(l, m, FALSE)
    \/ Return

SpecOrder == Init /\ [][NextOrder]_vars

\* registerStore, with and without a reducer among its options.
NextStore ==
    \/ \E k \in Keys, wa, ws \in BOOLEAN : RegisterStore(k, wa, ws)
    \/ \E k \in Keys, wa, ws \in BOOLEAN : RegisterStoreNoReducer(k, wa, ws)
    \/ Subscribe("L1")
    \/ \E k \in Keys, a \in ActionObjs : Dispatch(k, a)
    \/ ListenerNoop("L1")
    \/ Return

SpecStore == Init /\ [][NextStore]_vars

\* Listeners that throw: one registered store, callers' listeners that return,
\* dispatch or throw.
NextThrow ==
    \/ RegisterStore("k1", TRUE, TRUE)
    \/ \E l \in Plain : Subscribe(l)
    \/ \E a \in ActionObjs : Dispatch("k1", a)
    \/ \E l \in Plain : ListenerNoop(l)
    \/ \E l \in Plain, a \in ActionObjs : ListenerDispatch(l, "k1", a)
    \/ \E l \in Plain, n \in 0..MaxRef : ListenerThrow(l, n)
    \/ Return

SpecThrow == Init /\ [][NextThrow]_vars

\* withSelect: a store, one caller's listener, one wrapped component.
NextSelect ==
    \/ RegisterStore("k1", TRUE, TRUE)
    \/ Subscribe("L1")
    \/ \E a \in ActionObjs : Dispatch("k1", a)
    \/ \E c \in SelInst, p \in OwnProps : MountSelect(c, p)
    \/ \E c \in SelInst, p \in OwnProps : ReceivePropsSelect(c, p)
    \/ \E c \in SelInst : UnmountSelect(c)
    \/ ListenerNoop("L1")
    \/ \E c \in SelInst : ListenerUnmountSelect("L1", c)
    \/ \E c \in SelInst : NotifySelect(c)
    \/ Return

SpecSelect == Init /\ [][NextSelect]_vars

\* withSelect with a caller's listener that dispatches from inside a cycle.
NextFresh ==
    \/ NextSelect
    \/ \E a \in ActionObjs : ListenerDispatch("L1", "k1", a)

SpecFresh == Init /\ [][NextFresh]_vars

\* withData: two stores, one caller's listener, one wrapped component.
NextData ==
    \/ \E k \in Keys : RegisterStore(k, TRUE, TRUE)
    \/ Subscribe("L1")
    \/ \E k \in Keys, a \in ActionObjs : Dispatch(k, a)
    \/ \E c \in DataInst, p \in DataProps : MountData(c, p)
    \/ \E c \in DataInst, p \in DataProps : ReceivePropsData(c, p)
    \/ \E c \in DataInst : UnmountData(c)
    \/ ListenerNoop("L1")
    \/ \E c \in DataInst : ListenerUnmountData("L1", c)
    \/ \E c \in DataInst : NotifyData(c)
    \/ Return

SpecData == Init /\ [][NextData]_vars

\* Mounting and unmounting: a withSelect and a withData instance next to a caller's
\* listener, unmounted from outside or by the listener during a cycle.
NextMount ==
    \/ RegisterStore("k1", TRUE, TRUE)
    \/ Subscribe("L1")
    \/ \E a \in ActionObjs : Dispatch("k1", a)
    \/ \E c \in SelInst, p \in OwnProps : MountSelect(c, p)
    \/ \E c \in SelInst : UnmountSelect(c)
    \/ \E c \in DataInst, p \in {"a0", "dup"} : MountData(c, p)
    \/ \E c \in DataInst : UnmountData(c)
    \/ ListenerNoop("L1")
    \/ \E c \in SelInst : ListenerUnmountSelect("L1", c)
    \/ \E c \in DataInst : ListenerUnmountData("L1", c)
    \/ \E c \in SelInst : NotifySelect(c)
    \/ \E c \in DataInst : NotifyData(c)
    \/ Return

SpecMount == Init /\ [][NextMount]_vars

\* withData with effects that dispatch: runResolvers is followed statement by
\* statement, and every dispatch comes from an effect.
NextEffect ==
    \/ \E k \in Keys : Quiet /\ RegisterStore(k, TRUE, TRUE)
    \/ Quiet /\ Subscribe("L1")
    \/ \E c \in DataInst, p \in DataProps : MountDataStep(c, p)
    \/ \E c \in DataInst, p \in DataProps : ReceivePropsDataStep(c, p)
    \/ \E c \in DataInst, a \in ActionObjs : EffectStep(c, a)
    \/ \E c \in DataInst : FinishResolvers(c)
    \/ ListenerNoop("L1")
    \/ \E c \in DataInst : NotifyData(c)
    \/ Return

SpecEffect == Init /\ [][NextEffect]_vars

\* withDispatch: a store and one wrapped component.
NextDispatch ==
    \/ RegisterStore("k1", TRUE, TRUE)
    \/ \E c \in DispInst, p \in DispProps : MountDispatch(c, p)
    \/ \E c \in DispInst, p \in DispProps : UpdateDispatch(c, p)
    \/ \E c \in DispInst, propName \in {"onSet", "onNoop"}, v \in Values :
          InvokeProxy(c, propName, v)
    \/ Return

SpecDispatch == Init /\ [][NextDispatch]_vars

\* ------------------------------------------------------------------ properties
Live(s) == s \in 1..nStores

PushedFrame == Len(stack') = Len(stack) + 1

\* C1: a store.dispatch whose reducer returns a state object different from the
\* store's previous one starts exactly one run of globalListener, over the listeners
\* subscribed at that moment, each called once; a dispatch that leaves the state
\* object the same (and every other step) starts none.  This covers dispatches made
\* by a listener while a run is in progress.
C1_OncePerChange ==
    [][ /\ (\E s \in StoreIds : Live(s) /\ storeState'[s].ref # storeState[s].ref)
            => /\ PushedFrame
               /\ stack'[Len(stack')].snap = listeners
               /\ stack'[Len(stack')].i = 1
        /\ (\A s \in StoreIds : Live(s) => storeState'[s].ref = storeState[s].ref)
            => Len(stack') <= Len(stack)
        /\ Len(stack') < Len(stack)
            => /\ Len(stack') = Len(stack) - 1
               /\ Top.i = Len(Top.snap) + 1
        /\ \A n \in 1..Len(stack) :
              n <= Len(stack') => /\ stack'[n].snap = stack[n].snap
                                  /\ stack'[n].i \in {stack[n].i, stack[n].i + 1}
      ]_vars

\* C1 witness: a listener dispatched during a notification cycle and that inner
\* dispatch started a cycle of its own.
C1_Witness == Len(stack) = 2 /\ stack[1].snap # <<>>

\* C4 as claimed: whenever dispatch( key ).setValue( v ) returns, select( key ).getValue()
\* is v.
C4_AsClaimed ==
    [][ (Len(stack') < Len(stack) /\ selectors[Top.key] = Top.s)
            => GetValue(Top.key, storeState') = Top.value ]_vars

\* C4 (amended): when dispatch( key ).setValue( v ) returns, select( key ).getValue() is
\* v, unless a listener sent another setValue to the same store while the
\* notification cycle of that dispatch was running; and right after the reducer ran
\* (when the cycle starts) it is v in every case.
C4_ReadsCurrentState ==
    [][ /\ (Len(stack') < Len(stack) /\ selectors[Top.key] = Top.s /\ ~Top.nested)
            => GetValue(Top.key, storeState') = Top.value
        /\ (PushedFrame /\ selectors[stack'[Len(stack')].key] = stack'[Len(stack')].s)
            => GetValue(stack'[Len(stack')].key, storeState') = stack'[Len(stack')].value
      ]_vars

\* C4 witness: setValue( 1 ) has returned on a store whose state was 0 before, and
\* getValue() reads 1.
C4_Witness ==
    /\ Idle
    /\ selectors["k1"] \in StoreIds
    /\ selectors["k1"] = actions["k1"]
    /\ nRef >= 2 /\ nStores = 1
    /\ GetValue("k1", storeState) = 1

\* C5 as claimed: the bound selectors and the bound actions of a key always
\* operate on the store currently registered under that key.
C5_AsClaimed ==
    \A k \in Keys :
        /\ selectors[k] # NoEntry => selectors[k] = stores[k]
        /\ actions[k] # NoEntry => actions[k] = stores[k]

OthersKept(l) ==
    SelectSeq(listeners', LAMBDA y : y # l) = SelectSeq(listeners, LAMBDA y : y # l)

\* C6: once the unsubscribe closure of a listener has been called the listener is
\* not on the bus (a listener on the bus always has a subscribe call whose closure
\* was never called), a notification cycle calls only what is on the bus when it
\* starts, and calling a closure again leaves the other listeners where they are.
C6_Unsubscribed ==
    /\ [](\A l \in Listener : l \in Range(listeners) => subs[l] > 0)
    /\ [][ /\ \A l \in Listener :
                subsDone'[l] > subsDone[l] => (l \notin Range(listeners') /\ OthersKept(l))
           /\ (listeners' # listeners /\ subs' = subs /\ subsDone' = subsDone)
                => \E l \in Listener :
                      subsDone[l] > 0 /\ l \notin Range(listeners') /\ OthersKept(l)
           /\ PushedFrame => stack'[Len(stack')].snap = listeners
         ]_vars

\* C6 witness: a listener was subscribed, its closure called, and another listener
\* is still on the bus.
C6_Witness ==
    /\ subsDone["L1"] > 0 /\ subs["L1"] = 0
    /\ "L1" \notin Range(listeners)
    /\ "L2" \in Range(listeners)

\* C7 as claimed: every subscribe call whose closure was not called yet still has
\* its entry on the bus.
C7_AsClaimed == \A l \in Listener : Count(l, listeners) >= subs[l]

\* C7 (amended): the closure removes every bus entry that holds its listener
\* function, however many subscribe calls added them, and no entry of any other
\* listener: the other listeners keep their number of entries.
C7_RemovesAllOfListener ==
    [][ \A l \in Listener :
          subsDone'[l] > subsDone[l]
            => /\ Count(l, listeners') = 0
               /\ \A m \in Listener \ {l} : Count(m, listeners') = Count(m, listeners)
      ]_vars

\* C7 witness: a listener subscribed twice, one closure called, no entry left,
\* another listener still there.
C7_Witness ==
    /\ subs["L1"] = 1 /\ subsDone["L1"] = 1
    /\ Count("L1", listeners) = 0
    /\ Count("L2", listeners) > 0

\* C3: once componentWillUnmount of a withSelect instance has run, a runSelection
\* call on it (the one still due in a notification cycle that was already running
\* included) returns at the isUnmounting check: mapStateToProps is not called and
\* no state is set.
C3_NoUpdateAfterUnmount ==
    [][ \A c \in SelInst :
          sPhase[c] = "unmounted"
            => /\ sMerge'[c] = sMerge[c]
               /\ sLast'[c] \in {sLast[c], "guarded"}
               /\ Calling(c) => (sLast'[c] = "guarded" /\ stack' = Advanced)
      ]_vars

\* C3 witness: the instance was unmounted by a listener called before it in a
\* cycle, and its runSelection was then called in that same cycle.
C3_Witness ==
    /\ sPhase["S1"] = "unmounted"
    /\ sLast["S1"] = "guarded"
    /\ stack # <<>>
    /\ "S1" \in Range(Top.snap)
    /\ "S1" \notin Range(listeners)

\* a runSelection call of mounted instance c happens in this step: at mount, when
\* the own props change, or when the bus calls it
RanSelect(c) ==
    \/ sPhase[c] = "new" /\ sPhase'[c] = "mounted"
    \/ sPhase[c] = "mounted" /\ sProps'[c] # sProps[c]
    \/ sPhase[c] = "mounted" /\ Calling(c)

\* C9: every recomputation of a mounted withSelect instance sets state (re-renders)
\* exactly when the derived props just computed differ from the stored ones in
\* their set of keys or in the value of some key, and then stores the new ones; a
\* new state object in the store with the same derived values sets nothing.
C9_RendersIffShallowDiff ==
    [][ \A c \in SelInst :
          RanSelect(c)
            => LET next == MapStateToProps(sProps'[c], storeState)
                   differ ==
                     \/ ~sMerge[c].def
                     \/ DOMAIN next # DOMAIN sMerge[c].obj
                     \/ \E key \in DOMAIN next : next[key] # sMerge[c].obj[key]
               IN  /\ sLast'[c] = "set" <=> differ
                   /\ sLast'[c] = "same" <=> ~differ
                   /\ sMerge'[c] = IF differ THEN Obj(next) ELSE sMerge[c]
      ]_vars

\* C9 witness: during the cycle of a dispatch that replaced the state object, the
\* instance recomputed and found its derived props shallowly equal.
C9_Witness ==
    /\ stack # <<>>
    /\ sPhase["S1"] = "mounted"
    /\ sLast["S1"] = "same"
    /\ Top.i > 1 /\ Top.snap[Top.i - 1] = "S1"

\* C2 as claimed: once componentWillUnmount of a withData instance has run, a
\* runSelection call on it sets no state.
C2_AsClaimed ==
    [][ \A c \in DataInst :
          (dPhase[c] = "unmounted" /\ Calling(c))
            => (dLast'[c] # "set" /\ dState'[c] = dState[c]) ]_vars

\* C8 as claimed: during one mount the effect is invoked at most once for a
\* ( selector key, args ) pair.
C8_AsClaimed ==
    \A c \in DataInst : \A id \in Ids : dEff[c][<<"k1", id>>] + dEff[c][<<"k2", id>>] <= 1

\* runResolvers runs in this step: at mount or when the own props change
RanResolvers(c) ==
    \/ dPhase[c] = "new" /\ dPhase'[c] = "mounted"
    \/ dChanges'[c] # dChanges[c]

\* the prop keys whose resolver has an effect to call for eff, given the records
\* the instance held before
Fired(previous, resolvers, eff) ==
    {propKey \in DOMAIN resolvers :
        /\ resolvers[propKey].key = "getItem"
        /\ <<resolvers[propKey].reducerKey, resolvers[propKey].args[1]>> = eff
        /\ \/ propKey \notin DOMAIN previous
           \/ previous[propKey].key # resolvers[propKey].key
           \/ previous[propKey].args # resolvers[propKey].args}

\* C8 (amended): at mount and at every own-props change, the effect of a selector
\* is invoked once for each prop key whose resolver record has a selector key or
\* arguments different from the record that prop key had before (or had none), and
\* not for a prop key whose selector key and arguments are the same as before; no
\* other step invokes an effect.  A pair that returns after a different one, or that
\* two prop keys produce, is therefore invoked again.
C8_EffectPerChangedRecord ==
    [][ \A c \in DataInst : \A eff \in EffKeys :
          dEff'[c][eff] - dEff[c][eff] =
            IF RanResolvers(c)
            THEN Cardinality(Fired(dResolvers[c], Resolve(dProps'[c]), eff))
            ELSE 0
      ]_vars

\* C8 witness: mounted on getItem( 0 ) of k1, re-rendered with the same selector and
\* arguments (twice), and the effect was invoked once in all.
C8_Witness ==
    /\ dPhase["D1"] = "mounted"
    /\ dProps["D1"] = "a0"
    /\ dChanges["D1"] = 2
    /\ dEff["D1"][<<"k1", 0>>] = 1
    /\ \A eff \in EffKeys \ {<<"k1", 0>>} : dEff["D1"][eff] = 0

\* C10: while mapDispatchToProps returns the prop names it returned at mount, every
\* injected callback is the function object it was after mount; at any update a
\* prop name that was in proxyProps keeps its function object, and a function object
\* is created only for a prop name that was not.
C10_StableCallbacks ==
    /\ [](\A c \in DispInst :
            (wPhase[c] = "mounted" /\ wStable[c]) => wProxy[c] = wMountProxy[c])
    /\ [][ \A c \in DispInst :
             /\ \A propName \in DOMAIN wProxy'[c] :
                   IF propName \in DOMAIN wProxy[c]
                   THEN wProxy'[c][propName] = wProxy[c][propName]
                   ELSE wProxy'[c][propName] > wFns
             /\ wFns' - wFns = Cardinality(DOMAIN wProxy'[c] \ DOMAIN wProxy[c])
         ]_vars

\* C10 witness: mounted with props p0, the callback was used (it sent 0), the props
\* changed to p1, and still only one function object was ever created.
C10_Witness ==
    /\ Idle
    /\ wPhase["W1"] = "mounted" /\ wStable["W1"]
    /\ wProps["W1"] = "p1"
    /\ wFns = 1
    /\ nRef = 2 /\ storeState[1].value = 0 /\ storeState[1].ref = 2

\* ------------------------------------------------------------------ C11
\* a cycle that ends before forEach has called every listener of its array
Aborted == stack # <<>> /\ Len(stack') < Len(stack) /\ Top.i <= Len(Top.snap)

\* C11: when a listener throws, the cycle it was called in ends there: the listeners
\* after it are not called, and with nobody catching the exception reaches the caller
\* of the dispatch with the whole stack unwound.  The stores keep the state the
\* dispatch gave them, and lastState already refers to it, so that a later dispatch
\* returning the same state object notifies nobody.
C11_ThrowAbortsCycle ==
    [][/\ thrown' # thrown => Aborted /\ stack' = <<>>
       /\ Aborted =>
             /\ stack' = SubSeq(stack, 1, Len(stack'))
             /\ storeState' = storeState
             /\ listeners' = listeners
             /\ \A s \in StoreIds : Live(s) => lastState'[s] = storeState'[s].ref
       /\ (nRef' = nRef /\ thrown' = thrown) => Len(stack') <= Len(stack)]_vars

C11_Witness ==
    /\ thrown > 0
    /\ Idle
    /\ Len(listeners) > 1
    /\ \E s \in StoreIds : Live(s) /\ storeState[s].value = 1
                              /\ lastState[s] = storeState[s].ref

\* ------------------------------------------------------------------ C12
\* C12: a registerStore call given no reducer ends with the TypeError and leaves the
\* stores, the selectors and actions registries and the listener bus as they were,
\* whether or not the options carry actions or selectors.
C12_ThrowTouchesNothing ==
    [][(thrown' # thrown /\ stack = <<>>) =>
            /\ regVars' = regVars
            /\ busVars' = busVars
            /\ thrown' = thrown + 1]_vars

C12_Witness ==
    /\ thrown > 0
    /\ \E k \in Keys : stores[k] # Undefined /\ selectors[k] = NoEntry /\ actions[k] = NoEntry
    /\ \E k \in Keys : stores[k] = Undefined /\ selectors[k] = NoEntry

\* ------------------------------------------------------------------ C13
\* a can be had from b by leaving elements out, the others keeping their order
RECURSIVE Embeds(_, _)
Embeds(a, b) ==
    IF a = <<>> THEN TRUE
    ELSE IF b = <<>> THEN FALSE
    ELSE IF Head(a) = Head(b) THEN Embeds(Tail(a), Tail(b))
    ELSE Embeds(a, Tail(b))

\* C13: the bus is kept in subscription order and called in that order.  A subscribe
\* puts the listener behind every earlier one, an unsubscribe leaves the listeners
\* that stay in the order they had, and a cycle starts at the first element of the
\* bus and calls one element after the other in the order of the array.
C13_SubscriptionOrder ==
    [][/\ Len(listeners') > Len(listeners) =>
             /\ Len(listeners') = Len(listeners) + 1
             /\ SubSeq(listeners', 1, Len(listeners)) = listeners
       /\ Len(listeners') <= Len(listeners) => Embeds(listeners', listeners)
       /\ PushedFrame => stack'[Len(stack')].snap = listeners /\ stack'[Len(stack')].i = 1
       /\ \A n \in 1..Len(stack) :
             n <= Len(stack') => stack'[n].i \in {stack[n].i, stack[n].i + 1}]_vars

\* a cycle has called L2 and L3, in that order, after L1 was unsubscribed
C13_Witness ==
    /\ stack # <<>>
    /\ Top.snap = <<"L2", "L3">>
    /\ Top.i = 3
    /\ subsDone["L1"] > 0

\* ------------------------------------------------------------------ C14
\* C14 (as claimed): at every runResolvers, a prop key whose new record differs from
\* the record it had before in reducerKey, selector key or arguments, and whose
\* selector has an effect, has that effect invoked with the new arguments; so does a
\* record that differs in reducerKey alone.
C14_AsClaimed ==
    [][ \A c \in DataInst : RanResolvers(c) =>
          \A propKey \in DOMAIN dResolvers'[c] :
            LET new == dResolvers'[c][propKey]
                eff == <<new.reducerKey, new.args[1]>>
            IN  ( /\ HasEffect(new.key)
                  /\ \/ propKey \notin DOMAIN dResolvers[c]
                     \/ dResolvers[c][propKey] # new )
                => dEff'[c][eff] > dEff[c][eff]
      ]_vars

\* ------------------------------------------------------------------ C15
\* C15 (as claimed): the state of a mounted withData instance, which render injects
\* as props, has exactly the prop keys of the current resolver records.
C15_AsClaimed ==
    \A c \in DataInst : dPhase[c] = "mounted" => DOMAIN dState[c] = DOMAIN dResolvers[c]

\* ------------------------------------------------------------------ C16
\* the values select gives for the records rs on the store states st
Selected(rs, st) ==
    [propKey \in DOMAIN rs |->
        Select(rs[propKey].reducerKey, rs[propKey].key, rs[propKey].args, st)]

\* C16: in runResolvers this.resolvers holds the new records before an effect is
\* called, and the selection is computed once all effects have returned: when
\* runResolvers returns, also after an effect that dispatched and changed a store,
\* the state holds under every prop key of the new records the value select gives
\* for that record on the stores as the effects left them.
C16_SelectionAfterEffects ==
    [][ \A c \in DataInst :
          /\ dEff'[c] # dEff[c] => dRun[c].on /\ dResolvers[c] = Resolve(dProps[c])
          /\ (dRun[c].on /\ ~dRun'[c].on) =>
                /\ dRun[c].todo = <<>>
                /\ dResolvers'[c] = Resolve(dProps'[c])
                /\ \A propKey \in DOMAIN dResolvers'[c] :
                      /\ propKey \in DOMAIN dState'[c]
                      /\ dState'[c][propKey] =
                            Selected(dResolvers'[c], storeState')[propKey]
      ]_vars

\* runResolvers has returned after the effect of getItem( 0 ) sent setValue( 1 ): the
\* injected item is the value read from the state the effect left
C16_Witness ==
    /\ dPhase["D1"] = "mounted"
    /\ ~dRun["D1"].on
    /\ Idle
    /\ dProps["D1"] = "a0"
    /\ dEff["D1"][<<"k1", 0>>] > 0
    /\ storeState[selectors["k1"]].value = 1
    /\ dState["D1"] = [item |-> 1]

\* ------------------------------------------------------------------ C17
\* C17: a cycle goes through the bus as it was when the cycle started.  The array of
\* a running cycle is not changed by a subscribe or an unsubscribe made meanwhile;
\* the cycle calls a listener only from that array and ends only when it has called
\* every element of it: a listener unsubscribed by an earlier one is still called,
\* and one subscribed meanwhile is not called before the next cycle.
C17_CycleOverSnapshot ==
    [][/\ \A n \in 1..Len(stack) : n <= Len(stack') => stack'[n].snap = stack[n].snap
       /\ (stack # <<>> /\ Len(stack') < Len(stack)) => Top.i = Len(Top.snap) + 1
       /\ (stack # <<>> /\ Len(stack') >= Len(stack)
                        /\ stack'[Len(stack)].i # Top.i) => Top.i <= Len(Top.snap)]_vars

\* L1 was called first and L2, no longer on the bus, is the listener being called
C17_Witness ==
    /\ Calling("L2")
    /\ Top.i = 2
    /\ Top.snap[1] = "L1"
    /\ "L2" \notin Range(listeners)

\* ------------------------------------------------------------------ C18
\* the derived props mapStateToProps gives now are the ones c has stored
Fresh(c) == IsShallowEqual(sMerge[c], Obj(MapStateToProps(sProps[c], storeState)))

C19_ForwardsToCurrentDispatcher ==
    [][ \A c \in DispInst :
          (nRef' # nRef /\ nStores' = nStores) =>
              /\ "onSet" \in DOMAIN MapDispatchToProps(wProps[c])
              /\ storeState'[actions["k1"]].value =
                    Sent(MapDispatchToProps(wProps[c])["onSet"], wArg'[c]).value
      ]_vars

\* the callback created at mount was called with 1 after the props had become p1:
\* the dispatcher of p1 sent ( 1 + 1 ) % 2
C19_Witness ==
    /\ wPhase["W1"] = "mounted"
    /\ wProps["W1"] = "p1"
    /\ wProxy["W1"] = wMountProxy["W1"]
    /\ wFns = 1
    /\ wArg["W1"] = 1
    /\ nRef = 3
    /\ storeState[1].ref = 3
    /\ storeState[1].value = 0

\* ------------------------------------------------------------------ C20
\* C20: a mounted withSelect or withData instance has exactly one entry on the bus,
\* from the moment componentWillMount has run, and an instance that is not mounted
\* (not yet, or no longer) has none.
C20_OneEntryPerMounted ==
    /\ \A c \in SelInst : Count(c, listeners) = IF sPhase[c] = "mounted" THEN 1 ELSE 0
    /\ \A c \in DataInst : Count(c, listeners) = IF dPhase[c] = "mounted" THEN 1 ELSE 0

\* both instances were mounted, the withSelect one has been unmounted since
C20_Witness ==
    /\ sPhase["S1"] = "unmounted"
    /\ dPhase["D1"] = "mounted"
    /\ sLast["S1"] # "none"
    /\ "L1" \in Range(listeners)
    /\ Count("D1", listeners) = 1
    /\ Count("S1", listeners) = 0

====
